---- MODULE Spec2Model ----
(***************************************************************************)
(* Model of the room gateway (src/src/room/room.gateway.ts): the in-memory *)
(* registry of active rooms, the members of each room, the per-room        *)
(* document, the socket rooms of the transport, and the handlers of the    *)
(* gateway.  join-room, edit-room and close-session are asynchronous: each *)
(* `await` of the source is a point where every other handler may run, so  *)
(* each of them is one action per stretch of code between two awaits.  A   *)
(* write of the room store becomes visible when its promise resolves.      *)
(* cursor, selection, code-edit, edit-member and the disconnect hook have  *)
(* no await and are one action each.                                       *)
(*                                                                         *)
(* Optional values (undefined in the source) are sequences of length 0 or  *)
(* 1: None is undefined, Some(v) a present value.                          *)
(***************************************************************************)
EXTENDS Integers, Sequences, FiniteSets, TLC

VARIABLES
    db,          \* the room store: room id -> durable room record
    activeRooms, \* RoomGateway.activeRooms: sequence of active rooms
    docs,        \* RoomGateway.docs: room id -> set of updates applied to its document
    conn,        \* the connections that are open
    sockRooms,   \* transport: connection -> the socket rooms it has joined
    inflight,    \* the asynchronous handlers suspended at an await
    last,        \* the handler stretch that ran last, with its connection and payload
    out          \* the events that stretch emitted, in order

vars == <<db, activeRooms, docs, conn, sockRooms, inflight, last, out>>

---------------------------------------------------------------------------
(* Bounds of the model *)

\* Handlers that may be suspended at an await at the same time.
MaxInflight == 2

---------------------------------------------------------------------------
(* Optional values *)

None == <<>>
Some(v) == <<v>>
IsSome(o) == o # <<>>
Get(o) == o[1]
\* a ?? b
Coalesce(o, d) == IF IsSome(o) THEN Get(o) ELSE d

---------------------------------------------------------------------------
(* Identities, rooms, connections *)

Teacher == "T"
\* String.charCodeAt over the identities of the model
CharCodes(userId) ==
    CASE userId = "T" -> <<84>>
      [] userId = "S1" -> <<83, 49>>
      [] userId = "S2" -> <<83, 50>>
      [] OTHER -> <<>>

RoomIds == {"r1", "r2"}
Clients == {"c1", "c2", "c3"}

colors ==
    << "#FF6B6B", "#4ECDC4", "#45B7D1", "#96CEB4", "#FFEAA7",
       "#DDA0DD", "#98D8C8", "#F7DC6F", "#BB8FCE", "#85C1E9",
       "#F8C471", "#82E0AA", "#F1948A", "#85929E", "#D7BDE2" >>

\* hash << 5 on 32-bit integers: the low 27 bits of hash move up by five and the
\* result is read as a signed 32-bit number (134217728 = 2^27, 67108864 = 2^26)
ShiftLeft5(hash) ==
    LET k == hash % 134217728
    IN  IF k >= 67108864 THEN (k - 134217728) * 32 ELSE k * 32

\* hash = userId.charCodeAt(i) + ((hash << 5) - hash), over the characters
RECURSIVE HashFrom(_, _)
HashFrom(hash, codes) ==
    IF codes = <<>> THEN hash
    ELSE HashFrom(Head(codes) + (ShiftLeft5(hash) - hash), Tail(codes))

Abs(n) == IF n < 0 THEN -n ELSE n

generateUserColor(userId) ==
    colors[(Abs(HashFrom(0, CharCodes(userId))) % Len(colors)) + 1]

---------------------------------------------------------------------------
(* Transport *)

\* the open connections in socket room roomId
InRoom(roomId) == {c \in conn : roomId \in sockRooms[c]}

\* this.server.to(roomId).emit(ev, body)
ToRoom(ev, roomId, body) ==
    [ev |-> ev, scope |-> "room", room |-> roomId, to |-> InRoom(roomId), body |-> body]

\* client.broadcast.to(roomId).emit(ev, body)
ToOthers(ev, client, roomId, body) ==
    [ev |-> ev, scope |-> "others", room |-> roomId,
     to |-> InRoom(roomId) \ {client}, body |-> body]

\* client.emit(ev, body)
ToClient(ev, client, body) ==
    [ev |-> ev, scope |-> "client", room |-> "", to |-> {client} \cap conn, body |-> body]

\* client.join(roomId): the adapter adds the socket id to the room at the call
SocketJoin(client, roomId) ==
    [sockRooms EXCEPT ![client] = @ \cup {roomId}]

---------------------------------------------------------------------------
(* The registry and the members *)

\* this.activeRooms.find((r) => r.id === id), as an index: 0 when there is none
ActiveIndex(rooms, id) ==
    IF \E i \in DOMAIN rooms : rooms[i].id = id
    THEN CHOOSE i \in DOMAIN rooms :
             rooms[i].id = id /\ \A j \in 1..(i - 1) : rooms[j].id # id
    ELSE 0

\* members.find((m) => m.telegramId === telegramId), as an index
MemberIndex(members, telegramId) ==
    IF \E i \in DOMAIN members : members[i].telegramId = telegramId
    THEN CHOOSE i \in DOMAIN members :
             members[i].telegramId = telegramId
             /\ \A j \in 1..(i - 1) : members[j].telegramId # telegramId
    ELSE 0

\* members.find((m) => m.clientId === clientId), as an index
\* a find that takes the first Member whatever connection it is bound to
MemberIndexByClient_First(members, clientId) == IF members = <<>> THEN 0 ELSE 1

MemberIndexByClient(members, clientId) ==
    IF \E i \in DOMAIN members : members[i].clientId = clientId
    THEN CHOOSE i \in DOMAIN members :
             members[i].clientId = clientId
             /\ \A j \in 1..(i - 1) : members[j].clientId # clientId
    ELSE 0

\* the record pushed when a durable room has no active room yet
NewActiveRoom(room) ==
    [id |-> room.id,
     members |-> <<>>,
     studentCursorEnabled |-> Coalesce(room.studentCursorEnabled, TRUE),
     studentSelectionEnabled |-> Coalesce(room.studentSelectionEnabled, TRUE),
     studentEditCodeEnabled |-> Coalesce(room.studentEditCodeEnabled, TRUE),
     completed |-> room.completed,
     teacher |-> room.teacher]

\* getOrActivate without the find: a new active room is pushed at every join
getOrActivate_AlwaysPush(rooms, room) == Append(rooms, NewActiveRoom(room))

\* find the active room of a durable room, push a new one when there is none
getOrActivate(rooms, room) ==
    IF ActiveIndex(rooms, room.id) # 0 THEN rooms
    ELSE Append(rooms, NewActiveRoom(room))

\* the Member pushed for an identity that has none in the room
NewMember(members, clientId, telegramId, username, now) ==
    [clientId |-> clientId,
     telegramId |-> telegramId,
     username |-> username,
     online |-> TRUE,
     lastCursorPosition |-> None,
     lastSelection |-> None,
     userColor |-> generateUserColor(telegramId),
     lastActivity |-> now]

\* upsertMember without the find: a Member is pushed at every join
upsertMember_AlwaysPush(members, clientId, telegramId, username, now) ==
    Append(members, NewMember(members, clientId, telegramId, username, now))

\* the existing Member of the identity updated, or a new Member pushed
upsertMember(members, clientId, telegramId, username, now) ==
    LET i == MemberIndex(members, telegramId)
    IN  IF i # 0
        THEN [members EXCEPT
                 ![i].online = TRUE,
                 ![i].clientId = clientId,
                 ![i].lastActivity = now,
                 ![i].username = IF IsSome(username) THEN username ELSE @]
        ELSE Append(members, NewMember(members, clientId, telegramId, username, now))

\* the members that are online, in order
RECURSIVE OnlineMembers(_)
OnlineMembers(members) ==
    IF members = <<>> THEN <<>>
    ELSE IF Head(members).online
         THEN <<Head(members)>> \o OnlineMembers(Tail(members))
         ELSE OnlineMembers(Tail(members))

\* members.filter((m) => m.lastCursorPosition && m.online)
RECURSIVE WithCursor(_)
WithCursor(members) ==
    IF members = <<>> THEN <<>>
    ELSE IF IsSome(Head(members).lastCursorPosition) /\ Head(members).online
         THEN <<Head(members)>> \o WithCursor(Tail(members))
         ELSE WithCursor(Tail(members))

\* members.filter((m) => m.lastSelection && m.online): an empty object is truthy
RECURSIVE WithSelection(_)
WithSelection(members) ==
    IF members = <<>> THEN <<>>
    ELSE IF IsSome(Head(members).lastSelection) /\ Head(members).online
         THEN <<Head(members)>> \o WithSelection(Tail(members))
         ELSE WithSelection(Tail(members))

\* { ...m.lastSelection }: the fields of the selection, none when it is undefined
Spread(lastSelection) == IF IsSome(lastSelection) THEN Get(lastSelection) ELSE <<>>

\* an entry of currentSelections in join-room and in selection
SelectionEntry(m) ==
    [userColor |-> m.userColor, username |-> m.username]
        @@ Spread(m.lastSelection) @@ [telegramId |-> m.telegramId]

\* an entry of currentSelections in the disconnect hook (no username)
SelectionEntryLeft(m) ==
    [userColor |-> m.userColor] @@ Spread(m.lastSelection) @@ [telegramId |-> m.telegramId]

CursorEntry(m) ==
    [telegramId |-> m.telegramId, position |-> m.lastCursorPosition,
     userColor |-> m.userColor, username |-> m.username]

\* an entry of the roster sent with members-updated
RosterEntry(m) ==
    [telegramId |-> m.telegramId, username |-> m.username, online |-> m.online,
     userColor |-> m.userColor, lastActivity |-> m.lastActivity]

\* the roster entry of join-room, which also carries isYourself
RosterEntryJoin(m, telegramId) ==
    RosterEntry(m) @@ [isYourself |-> (m.telegramId = telegramId)]

Roster(members) == [i \in DOMAIN members |-> RosterEntry(members[i])]

---------------------------------------------------------------------------
(* The documents *)

\* a getOrCreateDoc that sets a new document at every call
getOrCreateDoc_AlwaysNew(d, roomId) == [d EXCEPT ![roomId] = Some({})]

\* getOrCreateDoc: the document map with a document for roomId
getOrCreateDoc(d, roomId) ==
    IF IsSome(d[roomId]) THEN d ELSE [d EXCEPT ![roomId] = Some({})]

---------------------------------------------------------------------------
(* The room store (RoomService over Prisma) *)

\* RoomService.getRoom: the durable room, None when there is none
getRoom(id) == db[id]

Includes(students, member) == \E i \in DOMAIN students : students[i] = member

\* the fields of the durable room that handleJoinRoom reads after an await
JoinLocals(room) ==
    [id |-> room.id, teacher |-> room.teacher,
     studentCursorEnabled |-> room.studentCursorEnabled,
     studentSelectionEnabled |-> room.studentSelectionEnabled,
     studentEditCodeEnabled |-> room.studentEditCodeEnabled,
     completed |-> room.completed]

\* the toggles of currentRoom, which RoomService.editRoom reads after its await
EditLocals(room) ==
    [studentCursorEnabled |-> room.studentCursorEnabled,
     studentSelectionEnabled |-> room.studentSelectionEnabled,
     studentEditCodeEnabled |-> room.studentEditCodeEnabled]

\* the one field (room.id) that handleCloseSession and handleEditRoom read of
\* the durable room after an await, and handleJoinRoom before it reassigns room
IdLocals(room) == [id |-> room.id]

\* a handler suspended at an await: the handler, the call it awaits, its
\* connection and payload, and the locals it reads after the await
Frame(h, pc, client, data, room, activeRoom, currentRoom) ==
    [h |-> h, pc |-> pc, client |-> client, data |-> data, room |-> room,
     activeRoom |-> activeRoom, currentRoom |-> currentRoom]

CanSuspend == Cardinality(inflight) < MaxInflight

---------------------------------------------------------------------------
(* join-room *)

\* handleJoinRoom up to its first suspension after getRoom resolved: the room
\* is missing (error to the caller), the identity is a participant (the
\* socket joins the room and the handler awaits that), or it is not (the
\* handler awaits RoomService.joinRoom)
JoinRoom_getRoom(client, data) ==
    /\ client \in conn
    /\ LET room == getRoom(data.roomId)
       IN  IF ~IsSome(room)
           THEN /\ out' = <<ToClient("join-room:error", client, [message |-> "room not found"])>>
                /\ UNCHANGED <<inflight, sockRooms>>
           ELSE /\ CanSuspend
                /\ out' = <<>>
                /\ IF Get(room).teacher = data.telegramId
                      \/ Includes(Get(room).students, data.telegramId)
                   THEN /\ sockRooms' = SocketJoin(client, data.roomId)
                        /\ inflight' = inflight \cup
                             {Frame("join-room", "client.join", client, data,
                                    Some(JoinLocals(Get(room))), None, None)}
                   ELSE /\ inflight' = inflight \cup
                             {Frame("join-room", "joinRoom.findUnique", client, data,
                                    Some(IdLocals(Get(room))), None, None)}
                        /\ UNCHANGED sockRooms
    /\ last' = [op |-> "join-room", step |-> "getRoom", client |-> client, data |-> data]
    /\ UNCHANGED <<db, activeRooms, docs, conn>>

\* RoomService.joinRoom after its findUnique resolved: an identity that is by
\* now a student or the teacher gets the room back, any other awaits the push
JoinRoom_findUnique(f) ==
    /\ f \in inflight
    /\ f.h = "join-room" /\ f.pc = "joinRoom.findUnique"
    /\ LET room == db[Get(f.room).id]
       IN  IF Includes(Get(room).students, f.data.telegramId)
              \/ Get(room).teacher = f.data.telegramId
           THEN /\ sockRooms' = SocketJoin(f.client, f.data.roomId)
                /\ inflight' = (inflight \ {f}) \cup
                     {[f EXCEPT !.pc = "client.join", !.room = Some(JoinLocals(Get(room)))]}
           ELSE /\ inflight' = (inflight \ {f}) \cup {[f EXCEPT !.pc = "joinRoom.update"]}
                /\ UNCHANGED sockRooms
    /\ last' = [op |-> "join-room", step |-> "joinRoom.findUnique",
                client |-> f.client, data |-> f.data]
    /\ out' = <<>>
    /\ UNCHANGED <<db, activeRooms, docs, conn>>

\* prisma.room.update({ students: { push: member } })
PushStudent(room, member) == [room EXCEPT !.students = Append(@, member)]

\* RoomService.joinRoom after its update resolved: the identity is pushed onto
\* the durable student list, and handleJoinRoom goes on to client.join
JoinRoom_update(f) ==
    /\ f \in inflight
    /\ f.h = "join-room" /\ f.pc = "joinRoom.update"
    /\ LET id == Get(f.room).id
           updatedRoom == PushStudent(Get(db[id]), f.data.telegramId)
       IN  /\ db' = [db EXCEPT ![id] = Some(updatedRoom)]
           /\ inflight' = (inflight \ {f}) \cup
                {[f EXCEPT !.pc = "client.join", !.room = Some(JoinLocals(updatedRoom))]}
    /\ sockRooms' = SocketJoin(f.client, f.data.roomId)
    /\ last' = [op |-> "join-room", step |-> "joinRoom.update",
                client |-> f.client, data |-> f.data]
    /\ out' = <<>>
    /\ UNCHANGED <<activeRooms, docs, conn>>

\* the registry after handleJoinRoom activated the room and upserted the Member
JoinedRooms(rooms, room, client, data, now) ==
    LET rooms1 == getOrActivate(rooms, room)
        i == ActiveIndex(rooms1, room.id)
    IN  [rooms1 EXCEPT ![i].members =
            upsertMember(@, client, data.telegramId, data.username, now)]

\* what handleJoinRoom emits once the Member is in place
JoinEvents(rooms, rooms2, d2, room, client, data) ==
    LET i == ActiveIndex(rooms2, room.id)
        activeRoom == rooms2[i]
        before == getOrActivate(rooms, room)[i].members
        e == MemberIndex(before, data.telegramId)
        currentCursors ==
            LET ms == WithCursor(activeRoom.members)
            IN  [k \in DOMAIN ms |-> CursorEntry(ms[k])]
        currentSelections ==
            LET ms == WithSelection(activeRoom.members)
            IN  [k \in DOMAIN ms |-> SelectionEntry(ms[k])]
    IN  << ToRoom("members-updated", data.roomId,
               [members |-> [k \in DOMAIN activeRoom.members |->
                                RosterEntryJoin(activeRoom.members[k], data.telegramId)],
                trigger |-> "join", telegramId |-> data.telegramId]),
           ToClient("joined", client,
               [telegramId |-> data.telegramId,
                currentCursors |-> currentCursors,
                currentSelections |-> currentSelections,
                userColor |-> IF e # 0 THEN before[e].userColor
                              ELSE generateUserColor(data.telegramId),
                isTeacher |-> (room.teacher = data.telegramId),
                roomPermissions |->
                    [studentCursorEnabled |-> activeRoom.studentCursorEnabled,
                     studentSelectionEnabled |-> activeRoom.studentSelectionEnabled,
                     studentEditCodeEnabled |-> activeRoom.studentEditCodeEnabled],
                completed |-> room.completed]),
           ToClient("code-edit-action", client, [update |-> Get(d2[room.id])]),
           ToClient("selection-state", client,
               [selections |-> currentSelections, updatedUser |-> data.telegramId]) >>

\* handleJoinRoom after client.join resolved, to its end
JoinRoom_rest(f, now) ==
    /\ f \in inflight
    /\ f.h = "join-room" /\ f.pc = "client.join"
    /\ LET room == Get(f.room)
           rooms2 == JoinedRooms(activeRooms, room, f.client, f.data, now)
           d2 == getOrCreateDoc(docs, room.id)
       IN  /\ activeRooms' = rooms2
           /\ docs' = d2
           /\ out' = JoinEvents(activeRooms, rooms2, d2, room, f.client, f.data)
    /\ inflight' = inflight \ {f}
    /\ last' = [op |-> "join-room", step |-> "done", client |-> f.client, data |-> f.data]
    /\ UNCHANGED <<db, conn, sockRooms>>

---------------------------------------------------------------------------
(* disconnect *)

\* the index of the first active room with a Member bound to the connection
FirstRoomOf(rooms, clientId) ==
    IF \E i \in DOMAIN rooms : MemberIndexByClient(rooms[i].members, clientId) # 0
    THEN CHOOSE i \in DOMAIN rooms :
             /\ MemberIndexByClient(rooms[i].members, clientId) # 0
             /\ \A j \in 1..(i - 1) : MemberIndexByClient(rooms[j].members, clientId) = 0
    ELSE 0

\* this.activeRooms.splice(index, 1)
Splice(rooms, index) ==
    [k \in 1..(Len(rooms) - 1) |-> IF k < index THEN rooms[k] ELSE rooms[k + 1]]

\* the Member found by handleDisconnect, marked offline with its selection cleared
MarkOffline(members, k) ==
    [members EXCEPT ![k].online = FALSE, ![k].lastSelection = None]

\* handleDisconnect without its eviction
EvictIfEmpty_Never(rooms, i) == rooms

\* the eviction at the end of handleDisconnect: a room with no online Member
\* is spliced out of the registry
EvictIfEmpty(rooms, i) ==
    IF Len(OnlineMembers(rooms[i].members)) = 0 THEN Splice(rooms, i) ELSE rooms

\* the registry after handleDisconnect(client)
DisconnectedRooms(rooms, clientId) ==
    LET i == FirstRoomOf(rooms, clientId)
    IN  IF i = 0 THEN rooms
        ELSE LET k == MemberIndexByClient(rooms[i].members, clientId)
                 rooms1 == [rooms EXCEPT ![i].members = MarkOffline(@, k)]
             IN  EvictIfEmpty(rooms1, i)

\* what handleDisconnect emits
DisconnectEvents(rooms, clientId, to) ==
    LET i == FirstRoomOf(rooms, clientId)
    IN  IF i = 0 THEN <<>>
        ELSE LET k == MemberIndexByClient(rooms[i].members, clientId)
                 members == MarkOffline(rooms[i].members, k)
                 member == members[k]
                 ms == WithSelection(members)
             IN  << [ev |-> "member-left", scope |-> "room", room |-> rooms[i].id, to |-> to[rooms[i].id],
                     body |-> [telegramId |-> member.telegramId, keepCursor |-> TRUE]],
                    [ev |-> "members-updated", scope |-> "room", room |-> rooms[i].id, to |-> to[rooms[i].id],
                     body |-> [members |-> Roster(members), trigger |-> "leave",
                               telegramId |-> member.telegramId]],
                    [ev |-> "selection-state", scope |-> "room", room |-> rooms[i].id, to |-> to[rooms[i].id],
                     body |-> [selections |-> [n \in DOMAIN ms |-> SelectionEntryLeft(ms[n])],
                               updatedUser |-> member.telegramId]] >>

\* the transport closes a connection: the socket leaves its rooms, then
\* handleDisconnect runs
Disconnect(client) ==
    /\ client \in conn
    /\ conn' = conn \ {client}
    /\ sockRooms' = [sockRooms EXCEPT ![client] = {}]
    /\ activeRooms' = DisconnectedRooms(activeRooms, client)
    /\ out' = DisconnectEvents(activeRooms, client,
                  [r \in RoomIds |-> InRoom(r) \ {client}])
    /\ last' = [op |-> "disconnect", step |-> "done", client |-> client, data |-> <<>>]
    /\ UNCHANGED <<db, docs, inflight>>

---------------------------------------------------------------------------
(* cursor *)

\* handleCursor with the check of the position moved before the gates
CursorOutcome_LengthFirst(rooms, data) ==
    LET i == ActiveIndex(rooms, data.roomId)
    IN  IF Len(data.position) # 2 THEN "invalid"
        ELSE IF i = 0 THEN "not-found"
        ELSE IF rooms[i].completed THEN "silent"
        ELSE IF ~rooms[i].studentCursorEnabled THEN "silent"
        ELSE "ok"

\* handleCursor without the gate of the cursor toggle
CursorOutcome_NoToggleGate(rooms, data) ==
    LET i == ActiveIndex(rooms, data.roomId)
    IN  IF i = 0 THEN "not-found"
        ELSE IF rooms[i].completed THEN "silent"
        ELSE IF Len(data.position) # 2 THEN "invalid"
        ELSE "ok"

\* the checks of handleCursor, in the order of the source
CursorOutcome(rooms, data) ==
    LET i == ActiveIndex(rooms, data.roomId)
    IN  IF i = 0 THEN "not-found"
        ELSE IF rooms[i].completed THEN "silent"
        ELSE IF ~rooms[i].studentCursorEnabled THEN "silent"
        ELSE IF Len(data.position) # 2 THEN "invalid"
        ELSE "ok"

\* the registry after an accepted cursor call: the sender's Member, when it
\* has one, takes the position and the time
CursorRooms(rooms, data, now) ==
    LET i == ActiveIndex(rooms, data.roomId)
        k == MemberIndex(rooms[i].members, data.telegramId)
    IN  IF k = 0 THEN rooms
        ELSE [rooms EXCEPT
                 ![i].members[k].lastCursorPosition =
                     Some(<<data.position[1], data.position[2]>>),
                 ![i].members[k].lastActivity = now]

\* { ...data, userColor: member?.userColor, username: member?.username }
CursorData(rooms, data) ==
    LET i == ActiveIndex(rooms, data.roomId)
        k == MemberIndex(rooms[i].members, data.telegramId)
    IN  [userColor |-> IF k = 0 THEN None ELSE Some(rooms[i].members[k].userColor),
         username |-> IF k = 0 THEN None ELSE rooms[i].members[k].username] @@ data

handleCursor(client, data, now) ==
    /\ client \in conn
    /\ LET outcome == CursorOutcome(activeRooms, data)
       IN  CASE outcome = "not-found" ->
                 /\ out' = <<ToClient("error", client, [message |-> "room not found"])>>
                 /\ UNCHANGED activeRooms
             [] outcome = "silent" ->
                 /\ out' = <<>>
                 /\ UNCHANGED activeRooms
             [] outcome = "invalid" ->
                 /\ out' = <<ToClient("error", client, [message |-> "position must be x, y"])>>
                 /\ UNCHANGED activeRooms
             [] OTHER ->
                 /\ activeRooms' = CursorRooms(activeRooms, data, now)
                 /\ out' = <<ToOthers("cursor-action", client, data.roomId,
                                CursorData(activeRooms', data))>>
    /\ last' = [op |-> "cursor", step |-> "done", client |-> client, data |-> data]
    /\ UNCHANGED <<db, docs, conn, sockRooms, inflight>>

---------------------------------------------------------------------------
(* selection *)

\* truthiness of an optional number, string, object and boolean
TruthyNumber(o) == IsSome(o) /\ Get(o) # 0
TruthyString(o) == IsSome(o) /\ Get(o) # ""
TruthyObject(o) == IsSome(o)
TruthyBoolean(o) == IsSome(o) /\ Get(o)

\* the branch of handleSelection a payload takes
SelectionKind(data) ==
    IF /\ TruthyNumber(data.line)
       /\ IsSome(data.column)
       /\ (~TruthyObject(data.selectionStart) \/ ~TruthyObject(data.selectionEnd)
              \/ ~TruthyString(data.selectedText))
    THEN "point"
    ELSE IF /\ TruthyObject(data.selectionStart)
            /\ TruthyObject(data.selectionEnd)
            /\ TruthyString(data.selectedText)
    THEN "range"
    ELSE IF TruthyBoolean(data.clearSelection)
    THEN "clear"
    ELSE "none"

\* a handleSelection that writes the fields of the branch into the stored
\* object instead of replacing it
NextSelection_Merge(lastSelection, data) ==
    LET kind == SelectionKind(data)
    IN  CASE kind = "point" ->
                 Some([line |-> Get(data.line), column |-> Get(data.column)]
                         @@ Spread(lastSelection))
          [] kind = "range" ->
                 Some([selectionStart |-> Get(data.selectionStart),
                       selectionEnd |-> Get(data.selectionEnd),
                       selectedText |-> Get(data.selectedText)]
                         @@ Spread(lastSelection))
          [] kind = "clear" -> Some(<<>>)
          [] OTHER -> lastSelection

\* member.lastSelection after the branch
NextSelection(lastSelection, data) ==
    LET kind == SelectionKind(data)
    IN  CASE kind = "point" ->
                 Some([line |-> Get(data.line), column |-> Get(data.column)])
          [] kind = "range" ->
                 Some([selectionStart |-> Get(data.selectionStart),
                       selectionEnd |-> Get(data.selectionEnd),
                       selectedText |-> Get(data.selectedText)])
          [] kind = "clear" -> Some(<<>>)
          [] OTHER -> lastSelection

\* the gates of handleSelection
SelectionOutcome(rooms, data) ==
    LET i == ActiveIndex(rooms, data.roomId)
    IN  IF i = 0 THEN "not-found"
        ELSE IF rooms[i].completed /\ rooms[i].teacher # data.telegramId THEN "silent"
        ELSE IF ~rooms[i].studentSelectionEnabled /\ rooms[i].teacher # data.telegramId
             THEN "silent"
        ELSE "ok"

SelectionRooms(rooms, data, now) ==
    LET i == ActiveIndex(rooms, data.roomId)
        k == MemberIndex(rooms[i].members, data.telegramId)
    IN  IF k = 0 THEN rooms
        ELSE [rooms EXCEPT
                 ![i].members[k].lastActivity = now,
                 ![i].members[k].lastSelection = NextSelection(@, data)]

\* currentSelections of handleSelection: one entry per online Member
SelectionList(members) ==
    LET ms == OnlineMembers(members)
    IN  [k \in DOMAIN ms |-> SelectionEntry(ms[k])]

handleSelection(client, data, now) ==
    /\ client \in conn
    /\ LET outcome == SelectionOutcome(activeRooms, data)
           i == ActiveIndex(activeRooms, data.roomId)
       IN  CASE outcome = "not-found" ->
                 /\ out' = <<ToClient("error", client, [message |-> "room not found"])>>
                 /\ UNCHANGED activeRooms
             [] outcome = "silent" ->
                 /\ out' = <<>>
                 /\ UNCHANGED activeRooms
             [] OTHER ->
                 /\ activeRooms' = SelectionRooms(activeRooms, data, now)
                 /\ out' = <<ToOthers("selection-state", client, data.roomId,
                                [selections |-> SelectionList(activeRooms'[i].members),
                                 updatedUser |-> data.telegramId])>>
    /\ last' = [op |-> "selection", step |-> "done", client |-> client, data |-> data]
    /\ UNCHANGED <<db, docs, conn, sockRooms, inflight>>

---------------------------------------------------------------------------
(* code-edit *)

\* the gates of handleCodeEdit, in the order of the source
CodeEditOutcome(rooms, data) ==
    LET i == ActiveIndex(rooms, data.roomId)
    IN  IF i = 0 THEN "not-found"
        ELSE IF rooms[i].completed /\ rooms[i].teacher # data.telegramId THEN "silent"
        ELSE IF ~rooms[i].studentEditCodeEnabled /\ data.telegramId # rooms[i].teacher
             THEN "disabled"
        ELSE IF data.telegramId = "" THEN "no-identity"
        ELSE "ok"

CodeEditRooms(rooms, data, now) ==
    LET i == ActiveIndex(rooms, data.roomId)
        k == MemberIndex(rooms[i].members, data.telegramId)
    IN  IF k = 0 THEN rooms
        ELSE [rooms EXCEPT ![i].members[k].lastActivity = now]

\* Y.applyUpdate(doc, update): the document holds the updates applied to it
applyUpdate(d, roomId, update) ==
    [d EXCEPT ![roomId] = Some(Get(@) \cup {update})]

\* a relay that echoes the edit to its sender: server.to(roomId)
CodeEditTargets_WithSender(client, roomId) == InRoom(roomId)

\* the connections a relayed code edit goes to
CodeEditTargets(client, roomId) == InRoom(roomId) \ {client}

handleCodeEdit(client, data, now) ==
    /\ client \in conn
    /\ LET outcome == CodeEditOutcome(activeRooms, data)
           i == ActiveIndex(activeRooms, data.roomId)
           k == MemberIndex(activeRooms[i].members, data.telegramId)
       IN  CASE outcome = "not-found" ->
                 /\ out' = <<ToClient("error", client, [message |-> "room not found"])>>
                 /\ UNCHANGED <<activeRooms, docs>>
             [] outcome = "silent" ->
                 /\ out' = <<>>
                 /\ UNCHANGED <<activeRooms, docs>>
             [] outcome = "disabled" ->
                 /\ out' = <<ToClient("error", client, [message |-> "code editing is disabled"])>>
                 /\ UNCHANGED <<activeRooms, docs>>
             [] outcome = "no-identity" ->
                 /\ out' = <<ToClient("error", client, [message |-> "no telegramId"])>>
                 /\ UNCHANGED <<activeRooms, docs>>
             [] OTHER ->
                 /\ activeRooms' = CodeEditRooms(activeRooms, data, now)
                 /\ docs' = applyUpdate(getOrCreateDoc(docs, data.roomId), data.roomId, data.update)
                 /\ out' = << [ev |-> "code-edit-action", scope |-> "others",
                               room |-> data.roomId,
                               to |-> CodeEditTargets(client, data.roomId),
                               body |-> [telegramId |-> data.telegramId,
                                         userColor |-> IF k = 0 THEN None
                                                       ELSE Some(activeRooms[i].members[k].userColor),
                                         username |-> IF k = 0 THEN None
                                                      ELSE activeRooms[i].members[k].username,
                                         update |-> data.update]] >>
    /\ last' = [op |-> "code-edit", step |-> "done", client |-> client, data |-> data]
    /\ UNCHANGED <<db, conn, sockRooms, inflight>>

---------------------------------------------------------------------------
(* edit-member *)

\* handleEditMember without the test of the caller
EditMemberOutcome_AnyCaller(rooms, data) ==
    LET i == ActiveIndex(rooms, data.roomId)
    IN  IF i = 0 THEN "not-found"
        ELSE IF rooms[i].completed THEN "silent"
        ELSE IF MemberIndex(rooms[i].members, data.changeTelegramId) # 0 THEN "ok"
        ELSE "no-member"

EditMemberOutcome(rooms, data) ==
    LET i == ActiveIndex(rooms, data.roomId)
    IN  IF i = 0 THEN "not-found"
        ELSE IF rooms[i].completed THEN "silent"
        ELSE LET k == MemberIndex(rooms[i].members, data.changeTelegramId)
             IN  IF k # 0 /\ (rooms[i].members[k].telegramId = data.telegramId
                              \/ rooms[i].teacher = data.telegramId)
                 THEN "ok"
                 ELSE "no-member"

handleEditMember(client, data) ==
    /\ client \in conn
    /\ LET outcome == EditMemberOutcome(activeRooms, data)
           i == ActiveIndex(activeRooms, data.roomId)
           k == MemberIndex(activeRooms[i].members, data.changeTelegramId)
       IN  CASE outcome = "not-found" ->
                 /\ out' = <<ToClient("error", client, [message |-> "room not found"])>>
                 /\ UNCHANGED activeRooms
             [] outcome = "silent" ->
                 /\ out' = <<>>
                 /\ UNCHANGED activeRooms
             [] outcome = "no-member" ->
                 /\ out' = <<ToClient("error", client, [message |-> "member not found"])>>
                 /\ UNCHANGED activeRooms
             [] OTHER ->
                 /\ activeRooms' = [activeRooms EXCEPT ![i].members[k].username = data.username]
                 /\ out' = <<ToRoom("members-updated", data.roomId,
                                [members |-> Roster(activeRooms'[i].members),
                                 trigger |-> "username-update",
                                 telegramId |-> data.telegramId])>>
    /\ last' = [op |-> "edit-member", step |-> "done", client |-> client, data |-> data]
    /\ UNCHANGED <<db, docs, conn, sockRooms, inflight>>

---------------------------------------------------------------------------
(* edit-room *)

\* activeRoom?.toggle ?? room.toggle, for the three toggles: what the in-memory
\* update keeps for a toggle the payload leaves out.  activeRoom is the object
\* found before the await and room the durable room read first; no code writes
\* a toggle of either in place, so the values are those at the time of the find
KeptToggles(activeRoom, room) ==
    [studentCursorEnabled |->
        IF IsSome(activeRoom) THEN Get(activeRoom).studentCursorEnabled
        ELSE Get(room.studentCursorEnabled),
     studentEditCodeEnabled |->
        IF IsSome(activeRoom) THEN Get(activeRoom).studentEditCodeEnabled
        ELSE Get(room.studentEditCodeEnabled),
     studentSelectionEnabled |->
        IF IsSome(activeRoom) THEN Get(activeRoom).studentSelectionEnabled
        ELSE Get(room.studentSelectionEnabled)]

\* handleEditRoom up to its suspension in RoomService.editRoom: a missing room
\* or a caller who is not its teacher gets an error, a completed room nothing
\* a check that lets any caller through: !room only
Authorized_AnyCaller(room, data) == IsSome(room)

\* the check of edit-room and of close-session: the room exists and the
\* caller is its teacher
Authorized(room, data) == IsSome(room) /\ Get(room).teacher = data.telegramId

EditRoom_getRoom(client, data) ==
    /\ client \in conn
    /\ LET room == getRoom(data.roomId)
           i == ActiveIndex(activeRooms, data.roomId)
       IN  IF ~Authorized(room, data)
           THEN /\ out' = <<ToClient("error", client, [message |-> "room not found"])>>
                /\ UNCHANGED inflight
           ELSE IF Get(room).completed
           THEN /\ out' = <<>>
                /\ UNCHANGED inflight
           ELSE /\ CanSuspend
                /\ out' = <<>>
                /\ inflight' = inflight \cup
                     {Frame("edit-room", "editRoom.findUnique", client, data,
                            Some(IdLocals(Get(room))),
                            Some(KeptToggles(IF i = 0 THEN None ELSE Some(activeRooms[i]),
                                             Get(room))),
                            None)}
    /\ last' = [op |-> "edit-room", step |-> "getRoom", client |-> client, data |-> data]
    /\ UNCHANGED <<db, activeRooms, docs, conn, sockRooms>>

\* RoomService.editRoom after its findUnique resolved
EditRoom_findUnique(f) ==
    /\ f \in inflight
    /\ f.h = "edit-room" /\ f.pc = "editRoom.findUnique"
    /\ inflight' = (inflight \ {f}) \cup
         {[f EXCEPT !.pc = "editRoom.update",
                    !.currentRoom = Some(EditLocals(Get(db[f.data.roomId])))]}
    /\ last' = [op |-> "edit-room", step |-> "editRoom.findUnique",
                client |-> f.client, data |-> f.data]
    /\ out' = <<>>
    /\ UNCHANGED <<db, activeRooms, docs, conn, sockRooms>>

\* the data of prisma.room.update in RoomService.editRoom: a toggle of the
\* payload, or else that of the room read before
EditedRoom(room, currentRoom, dto) ==
    [room EXCEPT
        !.studentCursorEnabled =
            IF IsSome(dto.studentCursorEnabled) THEN dto.studentCursorEnabled
            ELSE currentRoom.studentCursorEnabled,
        !.studentSelectionEnabled =
            IF IsSome(dto.studentSelectionEnabled) THEN dto.studentSelectionEnabled
            ELSE currentRoom.studentSelectionEnabled,
        !.studentEditCodeEnabled =
            IF IsSome(dto.studentEditCodeEnabled) THEN dto.studentEditCodeEnabled
            ELSE currentRoom.studentEditCodeEnabled]

\* one toggle of the in-memory update: Boolean(value of the payload), or else
\* the value kept
MergedToggle(given, kept) == IF IsSome(given) THEN Get(given) ELSE kept

\* the entry of the registry for the edited room after the in-memory update
applyToggles(activeRoomItem, data, kept) ==
    [activeRoomItem EXCEPT
        !.studentCursorEnabled =
            MergedToggle(data.studentCursorEnabled, kept.studentCursorEnabled),
        !.studentEditCodeEnabled =
            MergedToggle(data.studentEditCodeEnabled, kept.studentEditCodeEnabled),
        !.studentSelectionEnabled =
            MergedToggle(data.studentSelectionEnabled, kept.studentSelectionEnabled)]

\* this.activeRooms.map(...) of handleEditRoom
EditedRooms(rooms, id, data, kept) ==
    [k \in DOMAIN rooms |->
        IF rooms[k].id = id THEN applyToggles(rooms[k], data, kept)
        ELSE rooms[k]]

\* RoomService.editRoom after its update resolved, and handleEditRoom to its end
EditRoom_rest(f) ==
    /\ f \in inflight
    /\ f.h = "edit-room" /\ f.pc = "editRoom.update"
    /\ LET id == f.data.roomId
           updatedRoom == EditedRoom(Get(db[id]), Get(f.currentRoom), f.data)
       IN  /\ db' = [db EXCEPT ![id] = Some(updatedRoom)]
           /\ activeRooms' = EditedRooms(activeRooms, id, f.data, Get(f.activeRoom))
           /\ out' = <<ToRoom("room-edited", id, updatedRoom)>>
    /\ inflight' = inflight \ {f}
    /\ last' = [op |-> "edit-room", step |-> "done", client |-> f.client, data |-> f.data]
    /\ UNCHANGED <<docs, conn, sockRooms>>

---------------------------------------------------------------------------
(* close-session *)

\* handleCloseSession up to its suspension in RoomService.completeRoom
CloseSession_getRoom(client, data) ==
    /\ client \in conn
    /\ LET room == getRoom(data.roomId)
       IN  IF ~Authorized(room, data)
           THEN /\ out' = <<ToClient("error", client, [message |-> "room not found"])>>
                /\ UNCHANGED inflight
           ELSE IF Get(room).completed
           THEN /\ out' = <<>>
                /\ UNCHANGED inflight
           ELSE /\ CanSuspend
                /\ out' = <<>>
                /\ inflight' = inflight \cup
                     {Frame("close-session", "completeRoom", client, data,
                            Some(IdLocals(Get(room))), None, None)}
    /\ last' = [op |-> "close-session", step |-> "getRoom", client |-> client, data |-> data]
    /\ UNCHANGED <<db, activeRooms, docs, conn, sockRooms>>

\* this.activeRooms.filter((room) => room.id !== id)
RECURSIVE WithoutRoom(_, _)
WithoutRoom(rooms, id) ==
    IF rooms = <<>> THEN <<>>
    ELSE IF Head(rooms).id # id THEN <<Head(rooms)>> \o WithoutRoom(Tail(rooms), id)
         ELSE WithoutRoom(Tail(rooms), id)

\* RoomService.completeRoom after its update resolved, and handleCloseSession
\* to its end
CloseSession_rest(f) ==
    /\ f \in inflight
    /\ f.h = "close-session" /\ f.pc = "completeRoom"
    /\ LET id == Get(f.room).id
       IN  /\ db' = [db EXCEPT ![id] = Some([Get(@) EXCEPT !.completed = TRUE])]
           /\ activeRooms' = WithoutRoom(activeRooms, id)
           /\ out' = <<ToRoom("complete-session", id, [message |-> "session completed"])>>
    /\ inflight' = inflight \ {f}
    /\ last' = [op |-> "close-session", step |-> "done", client |-> f.client, data |-> f.data]
    /\ UNCHANGED <<docs, conn, sockRooms>>

---------------------------------------------------------------------------
(* Initial state *)

\* a durable room as RoomService.createRoom leaves it
DurableRoom(id, teacher, cursor, selection, edit) ==
    [id |-> id, teacher |-> teacher, students |-> <<>>,
     studentCursorEnabled |-> Some(cursor),
     studentSelectionEnabled |-> Some(selection),
     studentEditCodeEnabled |-> Some(edit),
     completed |-> FALSE]

InitWith(rooms, clients) ==
    /\ db = [r \in RoomIds |-> IF r \in rooms
                                THEN Some(DurableRoom(r, Teacher, TRUE, TRUE, TRUE))
                                ELSE None]
    /\ activeRooms = <<>>
    /\ docs = [r \in RoomIds |-> None]
    /\ conn = clients
    /\ sockRooms = [c \in Clients |-> {}]
    /\ inflight = {}
    /\ last = [op |-> "init", step |-> "done", client |-> "", data |-> <<>>]
    /\ out = <<>>

---------------------------------------------------------------------------
(* Payloads of the inbound events *)

JoinPayload(telegramId, roomId, username) ==
    [telegramId |-> telegramId, roomId |-> roomId, username |-> username]

\* EditPayload: the three toggles, each given or left out
EditPayload(telegramId, roomId, cursor, edit, selection) ==
    [telegramId |-> telegramId, roomId |-> roomId,
     studentCursorEnabled |-> cursor,
     studentEditCodeEnabled |-> edit,
     studentSelectionEnabled |-> selection]

\* the payload of close-session
ClosePayload(telegramId, roomId) == [telegramId |-> telegramId, roomId |-> roomId]

CursorPayload(telegramId, roomId, position) ==
    [telegramId |-> telegramId, roomId |-> roomId, position |-> position]

SelectionPayload(telegramId, roomId, line, column, selectionStart, selectionEnd, selectedText, clearSelection) ==
    [telegramId |-> telegramId, roomId |-> roomId, line |-> line, column |-> column,
     selectionStart |-> selectionStart, selectionEnd |-> selectionEnd,
     selectedText |-> selectedText, clearSelection |-> clearSelection]

\* a selection payload with a line and a column only
PointPayload(telegramId, roomId, line, column) ==
    SelectionPayload(telegramId, roomId, Some(line), Some(column), None, None, None, None)

\* a selection payload with a start, an end and the selected text only
RangePayload(telegramId, roomId, start, end, text) ==
    SelectionPayload(telegramId, roomId, None, None, Some(start), Some(end), Some(text), None)

\* a selection payload with the clear flag only
ClearPayload(telegramId, roomId) ==
    SelectionPayload(telegramId, roomId, None, None, None, None, None, Some(TRUE))

\* a position of a selection
Position(line, column) == [line |-> line, column |-> column]

CodeEditPayload(telegramId, roomId, update) ==
    [telegramId |-> telegramId, roomId |-> roomId, update |-> update]

\* the payload of edit-member
EditMember(telegramId, roomId, changeTelegramId, username) ==
    [telegramId |-> telegramId, roomId |-> roomId,
     changeTelegramId |-> changeTelegramId, username |-> username]

---------------------------------------------------------------------------
(* The life of a room: join-room, edit-room, close-session and disconnect,   *)
(* interleaved at their awaits.  The teacher is on connection c1, a student *)
(* who is not enrolled yet on c2.                                           *)

JoinCalls ==
    { <<"c1", JoinPayload("T", "r1", None)>>,
      <<"c2", JoinPayload("S1", "r1", None)>> }

EditCalls ==
    { <<"c1", EditPayload("T", "r1", Some(FALSE), None, None)>>,
      <<"c1", EditPayload("T", "r1", Some(TRUE), None, None)>>,
      <<"c2", EditPayload("S1", "r1", Some(FALSE), None, None)>>,
      <<"c1", EditPayload("T", "r2", Some(FALSE), None, None)>> }

CloseCalls ==
    { <<"c1", ClosePayload("T", "r1")>>,
      <<"c2", ClosePayload("S1", "r1")>>,
      <<"c1", ClosePayload("T", "r2")>> }

Init == InitWith({"r1"}, {"c1", "c2"})

Next ==
    \/ \E call \in JoinCalls : JoinRoom_getRoom(call[1], call[2])
    \/ \E f \in inflight : JoinRoom_findUnique(f)
    \/ \E f \in inflight : JoinRoom_update(f)
    \/ \E f \in inflight : JoinRoom_rest(f, 0)
    \/ \E call \in EditCalls : EditRoom_getRoom(call[1], call[2])
    \/ \E f \in inflight : EditRoom_findUnique(f)
    \/ \E f \in inflight : EditRoom_rest(f)
    \/ \E call \in CloseCalls : CloseSession_getRoom(call[1], call[2])
    \/ \E f \in inflight : CloseSession_rest(f)
    \/ \E client \in Clients : Disconnect(client)

Spec == Init /\ [][Next]_vars

---------------------------------------------------------------------------
(* C1.  In every reachable state the registry holds at most one active room *)
(* per room identifier, whatever the interleaving of join-room, edit-room,  *)
(* close-session and disconnect at their awaits.                            *)

C1_OneActiveRoomPerId ==
    \A i, j \in DOMAIN activeRooms :
        activeRooms[i].id = activeRooms[j].id => i = j

\* a join-room ran to its end and found the room already activated by another
\* handler, while a further join-room that read the durable room is suspended
C1_Witness ==
    /\ last.op = "join-room" /\ last.step = "done"
    /\ Len(activeRooms) = 1
    /\ Len(activeRooms[1].members) = 2
    /\ \E f \in inflight : f.h = "join-room" /\ f.pc = "client.join"

---------------------------------------------------------------------------
(* Presence: identities join from either connection, select, and their      *)
(* connections close; join-room is interleaved at its awaits.               *)

PresenceJoinCalls ==
    { <<client, JoinPayload(telegramId, "r1", None)>> :
        client \in {"c1", "c2"}, telegramId \in {"T", "S1"} }

PresenceSelectionCalls ==
    { <<client, PointPayload(telegramId, "r1", 3, 5)>> :
        client \in {"c1", "c2"}, telegramId \in {"T", "S1"} }

NextPresence ==
    \/ \E call \in PresenceJoinCalls : JoinRoom_getRoom(call[1], call[2])
    \/ \E f \in inflight : JoinRoom_findUnique(f)
    \/ \E f \in inflight : JoinRoom_update(f)
    \/ \E f \in inflight : JoinRoom_rest(f, 0)
    \/ \E call \in PresenceSelectionCalls : handleSelection(call[1], call[2], 0)
    \/ \E client \in Clients : Disconnect(client)

SpecPresence == Init /\ [][NextPresence]_vars

---------------------------------------------------------------------------
(* C2.  Whatever joins and disconnects came before, an active room holds    *)
(* one Member per identity; when a join-room has run to its end the Member  *)
(* of the joining identity is online and bound to the joining connection;   *)
(* and the colour of an identity, in its Member and in every joined reply,  *)
(* is one fixed value per identity, whatever the order of the joins.        *)

\* the colours of the identities, worked out by hand from the hash of the
\* source: "T" hashes to 84 and 84 % 15 = 9; "S1" to 2622 and 2622 % 15 = 12
C2_Color(telegramId) ==
    CASE telegramId = "T" -> "#85C1E9"
      [] telegramId = "S1" -> "#F1948A"

C2_OneMemberOneColor ==
    /\ \A i \in DOMAIN activeRooms :
          LET members == activeRooms[i].members
          IN  /\ \A k, l \in DOMAIN members :
                    members[k].telegramId = members[l].telegramId => k = l
              /\ \A k \in DOMAIN members :
                    members[k].userColor = C2_Color(members[k].telegramId)
    /\ (last.op = "join-room" /\ last.step = "done") =>
          /\ \E i \in DOMAIN activeRooms :
                /\ activeRooms[i].id = last.data.roomId
                /\ \E k \in DOMAIN activeRooms[i].members :
                      LET m == activeRooms[i].members[k]
                      IN  /\ m.telegramId = last.data.telegramId
                          /\ m.online
                          /\ m.clientId = last.client
          /\ \E n \in DOMAIN out :
                /\ out[n].ev = "joined"
                /\ out[n].body.userColor = C2_Color(last.data.telegramId)

\* both identities have joined from c1 and then again from c2: c1 is still in
\* the socket room, and the two Members are bound to c2
C2_Witness ==
    /\ last.op = "join-room" /\ last.step = "done" /\ last.client = "c2"
    /\ inflight = {}
    /\ "c1" \in InRoom("r1")
    /\ Len(activeRooms) = 1
    /\ Len(activeRooms[1].members) = 2
    /\ \A k \in DOMAIN activeRooms[1].members :
          activeRooms[1].members[k].clientId = "c2" /\ activeRooms[1].members[k].online

---------------------------------------------------------------------------
(* C3.  A disconnect pass takes the first Member bound to the closed        *)
(* connection (first room of the registry, first Member of the room).  If   *)
(* no other Member of the room was online, the room is gone from the        *)
(* registry afterwards; otherwise the room is still there, that Member is   *)
(* offline with no selection and every other Member is as before.  At the   *)
(* end of a disconnect pass every room of the registry has an online Member.*)

C3_Matched(client, i, k) ==
    /\ activeRooms[i].members[k].clientId = client
    /\ \A j \in 1..(k - 1) : activeRooms[i].members[j].clientId # client
    /\ \A h \in 1..(i - 1) : \A j \in DOMAIN activeRooms[h].members :
          activeRooms[h].members[j].clientId # client

C3_DisconnectPass ==
    [][ last'.op = "disconnect" =>
          /\ \A i \in DOMAIN activeRooms : \A k \in DOMAIN activeRooms[i].members :
                C3_Matched(last'.client, i, k) =>
                    LET room == activeRooms[i]
                    IN  IF \A j \in DOMAIN room.members : j # k => ~room.members[j].online
                        THEN \A n \in DOMAIN activeRooms' : activeRooms'[n].id # room.id
                        ELSE \E n \in DOMAIN activeRooms' :
                               /\ activeRooms'[n].id = room.id
                               /\ DOMAIN activeRooms'[n].members = DOMAIN room.members
                               /\ ~activeRooms'[n].members[k].online
                               /\ activeRooms'[n].members[k].lastSelection = None
                               /\ \A j \in DOMAIN room.members :
                                     j # k => activeRooms'[n].members[j] = room.members[j]
          /\ \A n \in DOMAIN activeRooms' :
                \E j \in DOMAIN activeRooms'[n].members : activeRooms'[n].members[j].online
      ]_vars

\* a Member with a selection went offline and lost it, another Member of the
\* room is online and has kept its selection
C3_Witness ==
    /\ last.op = "disconnect"
    /\ \E n \in DOMAIN out : out[n].ev = "member-left"
    /\ Len(activeRooms) = 1
    /\ \E k, j \in DOMAIN activeRooms[1].members :
          /\ ~activeRooms[1].members[k].online
          /\ activeRooms[1].members[k].lastSelection = None
          /\ activeRooms[1].members[k].clientId = last.client
          /\ activeRooms[1].members[j].online
          /\ IsSome(activeRooms[1].members[j].lastSelection)

---------------------------------------------------------------------------
(* A session that is closed: the teacher on c1 and a student on c2 join,    *)
(* move cursors, select and edit, the teacher disables student editing and  *)
(* closes the session, and any of the connections closes; join-room,        *)
(* edit-room and close-session are interleaved at their awaits.             *)

SessionEditCalls == { <<"c1", EditPayload("T", "r1", None, Some(FALSE), None)>> }

SessionCursorCalls == { <<"c2", CursorPayload("S1", "r1", <<1, 2>>)>> }

SessionSelectionCalls ==
    { <<"c2", PointPayload("S1", "r1", 3, 5)>>,
      <<"c1", PointPayload("T", "r1", 3, 5)>> }

SessionCodeEditCalls ==
    { <<"c2", CodeEditPayload("S1", "r1", "u")>>,
      <<"c1", CodeEditPayload("T", "r1", "u")>> }

NextSession ==
    \/ \E call \in JoinCalls : JoinRoom_getRoom(call[1], call[2])
    \/ \E f \in inflight : JoinRoom_findUnique(f)
    \/ \E f \in inflight : JoinRoom_update(f)
    \/ \E f \in inflight : JoinRoom_rest(f, 0)
    \/ \E call \in CloseCalls : CloseSession_getRoom(call[1], call[2])
    \/ \E f \in inflight : CloseSession_rest(f)
    \/ \E call \in SessionCursorCalls : handleCursor(call[1], call[2], 0)
    \/ \E call \in SessionSelectionCalls : handleSelection(call[1], call[2], 0)
    \/ \E call \in SessionCodeEditCalls : handleCodeEdit(call[1], call[2], 0)
    \/ \E call \in SessionEditCalls : EditRoom_getRoom(call[1], call[2])
    \/ \E f \in inflight : EditRoom_findUnique(f)
    \/ \E f \in inflight : EditRoom_rest(f)
    \/ \E client \in Clients : Disconnect(client)

SpecSession == Init /\ [][NextSession]_vars

---------------------------------------------------------------------------
(* C4.  Once the teacher's close-session has succeeded (the durable room is *)
(* completed), a cursor call, a selection call by a non-teacher and a       *)
(* code-edit call by a non-teacher on that room deliver no cursor-action,   *)
(* selection-state or code-edit-action to any other connection.             *)

C4_Gated ==
    /\ last.op \in {"cursor", "selection", "code-edit"}
    /\ IsSome(db[last.data.roomId])
    /\ Get(db[last.data.roomId]).completed
    /\ (last.op = "cursor" \/ last.data.telegramId # Get(db[last.data.roomId]).teacher)

C4_NoBroadcastAfterClose ==
    C4_Gated =>
        \A n \in DOMAIN out :
            out[n].ev \in {"cursor-action", "selection-state", "code-edit-action"}
                => out[n].to = {}

---------------------------------------------------------------------------
(* C5.  No event is delivered to the connections of a room whose completed  *)
(* flag is true, except complete-session and the selection-state of the     *)
(* teacher's own selection call.                                            *)

C5_Allowed(e) ==
    \/ e.ev = "complete-session"
    \/ /\ e.ev = "selection-state"
       /\ last.op = "selection"
       /\ last.data.telegramId = Get(db[e.room]).teacher

C5_NoEventToCompletedRoom ==
    \A n \in DOMAIN out :
        ( /\ out[n].scope \in {"room", "others"}
          /\ out[n].to # {}
          /\ IsSome(db[out[n].room])
          /\ Get(db[out[n].room]).completed )
            => C5_Allowed(out[n])

---------------------------------------------------------------------------
(* Partial edits: the teacher, joined on c1, sends edit-room calls that     *)
(* each specify one toggle; the calls are interleaved at their awaits with  *)
(* each other, with join-room and with the closing of connections.          *)

PartialEditCalls ==
    { <<"c1", EditPayload("T", "r1", Some(FALSE), None, None)>>,
      <<"c1", EditPayload("T", "r1", None, Some(FALSE), None)>>,
      <<"c1", EditPayload("T", "r1", None, None, Some(TRUE))>> }

NextEdit ==
    \/ \E call \in JoinCalls : JoinRoom_getRoom(call[1], call[2])
    \/ \E f \in inflight : JoinRoom_findUnique(f)
    \/ \E f \in inflight : JoinRoom_update(f)
    \/ \E f \in inflight : JoinRoom_rest(f, 0)
    \/ \E call \in PartialEditCalls : EditRoom_getRoom(call[1], call[2])
    \/ \E f \in inflight : EditRoom_findUnique(f)
    \/ \E f \in inflight : EditRoom_rest(f)
    \/ \E client \in Clients : Disconnect(client)

SpecEdit == Init /\ [][NextEdit]_vars

---------------------------------------------------------------------------
(* C6.  When an edit-room call of the teacher runs its in-memory update,    *)
(* every toggle the call leaves out has, in the room's entry of the         *)
(* registry right after the update, the value it had in that entry right    *)
(* before the update.                                                       *)

ToggleNames == {"studentCursorEnabled", "studentEditCodeEnabled", "studentSelectionEnabled"}

C6_UnspecifiedTogglesKept ==
    [][ (last'.op = "edit-room" /\ last'.step = "done") =>
          \A i \in DOMAIN activeRooms :
              activeRooms[i].id = last'.data.roomId =>
                  \A toggle \in ToggleNames :
                      ~IsSome(last'.data[toggle]) =>
                          activeRooms'[i][toggle] = activeRooms[i][toggle]
      ]_vars

---------------------------------------------------------------------------
(* A class: the teacher on c1 and two students on c2 and c3 join, the       *)
(* teacher turns student editing off, and the teacher and a student send    *)
(* code edits.                                                              *)

ClassJoinCalls ==
    { <<"c1", JoinPayload("T", "r1", None)>>,
      <<"c2", JoinPayload("S1", "r1", None)>>,
      <<"c3", JoinPayload("S2", "r1", None)>> }

ClassEditCalls == { <<"c1", EditPayload("T", "r1", None, Some(FALSE), None)>> }

ClassCodeEditCalls ==
    { <<"c1", CodeEditPayload("T", "r1", "u1")>>,
      <<"c2", CodeEditPayload("S1", "r1", "u2")>> }

\* the room with S2 enrolled in an earlier session; S1 enrols by joining
InitClass ==
    /\ db = [r \in RoomIds |->
                IF r = "r1"
                THEN Some(PushStudent(DurableRoom(r, Teacher, TRUE, TRUE, TRUE), "S2"))
                ELSE None]
    /\ activeRooms = <<>>
    /\ docs = [r \in RoomIds |-> None]
    /\ conn = {"c1", "c2", "c3"}
    /\ sockRooms = [c \in Clients |-> {}]
    /\ inflight = {}
    /\ last = [op |-> "init", step |-> "done", client |-> "", data |-> <<>>]
    /\ out = <<>>

NextClass ==
    \/ \E call \in ClassJoinCalls : JoinRoom_getRoom(call[1], call[2])
    \/ \E f \in inflight : JoinRoom_findUnique(f)
    \/ \E f \in inflight : JoinRoom_update(f)
    \/ \E f \in inflight : JoinRoom_rest(f, 0)
    \/ \E call \in ClassEditCalls : EditRoom_getRoom(call[1], call[2])
    \/ \E f \in inflight : EditRoom_findUnique(f)
    \/ \E f \in inflight : EditRoom_rest(f)
    \/ \E call \in ClassCodeEditCalls : handleCodeEdit(call[1], call[2], 0)

SpecClass == InitClass /\ [][NextClass]_vars

---------------------------------------------------------------------------
(* C7.  While student editing is off in an active room that is not          *)
(* completed: a code-edit call of a non-teacher sends one error to the      *)
(* sender alone, leaves the documents as they are and relays nothing; a     *)
(* code-edit call of the teacher applies the update to the room's document  *)
(* and relays code-edit-action to every other connection of the room and    *)
(* not to the teacher's own connection.                                     *)

C7_EditingOff(roomId) ==
    \E i \in DOMAIN activeRooms :
        /\ activeRooms[i].id = roomId
        /\ ~activeRooms[i].studentEditCodeEnabled
        /\ ~activeRooms[i].completed

C7_CodeEditWhileDisabled ==
    [][ (last'.op = "code-edit" /\ C7_EditingOff(last'.data.roomId)) =>
          IF last'.data.telegramId # Teacher
          THEN /\ Len(out') = 1
               /\ out'[1].ev = "error"
               /\ out'[1].to = {last'.client}
               /\ docs' = docs
          ELSE /\ IsSome(docs'[last'.data.roomId])
               /\ last'.data.update \in Get(docs'[last'.data.roomId])
               /\ Len(out') = 1
               /\ out'[1].ev = "code-edit-action"
               /\ out'[1].to = InRoom(last'.data.roomId) \ {last'.client}
      ]_vars

\* editing is off, the teacher's edit was relayed to the two students, and
\* the document holds the teacher's update and not the student's
C7_Witness ==
    /\ last.op = "code-edit" /\ last.client = "c1"
    /\ C7_EditingOff("r1")
    /\ Len(out) = 1
    /\ out[1].ev = "code-edit-action"
    /\ out[1].to = {"c2", "c3"}
    /\ docs["r1"] = Some({"u1"})

---------------------------------------------------------------------------
(* Cursors: the teacher on c1 and a student on c2 join and send cursor      *)
(* calls with positions of one, two and three coordinates, before any join, *)
(* while the teacher turns the student cursors off and on, and after the    *)
(* teacher closed the session.  Joins happen at time 0, cursor calls at 1.  *)

CursorEditCalls ==
    { <<"c1", EditPayload("T", "r1", Some(FALSE), None, None)>>,
      <<"c1", EditPayload("T", "r1", Some(TRUE), None, None)>> }

CursorCloseCalls == { <<"c1", ClosePayload("T", "r1")>> }

CursorCalls ==
    { <<"c2", CursorPayload("S1", "r1", <<1, 2>>)>>,
      <<"c2", CursorPayload("S1", "r1", <<1>>)>>,
      <<"c1", CursorPayload("T", "r1", <<1, 2, 3>>)>> }

NextCursor ==
    \/ \E call \in JoinCalls : JoinRoom_getRoom(call[1], call[2])
    \/ \E f \in inflight : JoinRoom_findUnique(f)
    \/ \E f \in inflight : JoinRoom_update(f)
    \/ \E f \in inflight : JoinRoom_rest(f, 0)
    \/ \E call \in CursorEditCalls : EditRoom_getRoom(call[1], call[2])
    \/ \E f \in inflight : EditRoom_findUnique(f)
    \/ \E f \in inflight : EditRoom_rest(f)
    \/ \E call \in CursorCloseCalls : CloseSession_getRoom(call[1], call[2])
    \/ \E f \in inflight : CloseSession_rest(f)
    \/ \E call \in CursorCalls : handleCursor(call[1], call[2], 1)

SpecCursor == Init /\ [][NextCursor]_vars

---------------------------------------------------------------------------
(* C8.  A cursor call whose position does not have exactly two coordinates  *)
(* relays no cursor-action and leaves every Member as it was.  It is        *)
(* answered with an error to the sender alone exactly when the room has no  *)
(* ActiveRoom (room not found) or has one that is not completed and has the *)
(* student cursors on (invalid position); with a completed ActiveRoom or    *)
(* the student cursors off it emits nothing.                                *)

\* the ActiveRoom of the room of the call just made, before the call; 0 if none
C8_Room == ActiveIndex(activeRooms, last'.data.roomId)

C8_ErrorToSender ==
    /\ Len(out') = 1
    /\ out'[1].ev = "error"
    /\ out'[1].scope = "client"
    /\ out'[1].to = {last'.client}

C8_InvalidPosition ==
    [][ (last'.op = "cursor" /\ Len(last'.data.position) # 2) =>
          /\ activeRooms' = activeRooms
          /\ \A n \in DOMAIN out' : out'[n].ev # "cursor-action"
          /\ IF C8_Room = 0
             THEN C8_ErrorToSender
             ELSE IF activeRooms[C8_Room].completed
                     \/ ~activeRooms[C8_Room].studentCursorEnabled
             THEN out' = <<>>
             ELSE C8_ErrorToSender /\ out'[1].body.message = "position must be x, y"
      ]_vars

\* the student, whose Member holds the position of an earlier call, sent one
\* coordinate and got the error; the Member holds the earlier position and time
C8_Witness ==
    /\ last.op = "cursor" /\ last.client = "c2" /\ Len(last.data.position) = 1
    /\ Len(out) = 1 /\ out[1].ev = "error" /\ out[1].to = {"c2"}
    /\ out[1].body.message = "position must be x, y"
    /\ \E i \in DOMAIN activeRooms : \E k \in DOMAIN activeRooms[i].members :
          /\ activeRooms[i].members[k].telegramId = "S1"
          /\ activeRooms[i].members[k].lastCursorPosition = Some(<<1, 2>>)
          /\ activeRooms[i].members[k].lastActivity = 1

\* C8 as stated: rejected with an error to the sender whatever the room's
\* toggle and completed state
C8_AlwaysRejected ==
    [][ (last'.op = "cursor" /\ Len(last'.data.position) # 2) =>
          /\ activeRooms' = activeRooms
          /\ \A n \in DOMAIN out' : out'[n].ev # "cursor-action"
          /\ \E n \in DOMAIN out' : out'[n].ev = "error" /\ out'[n].to = {last'.client}
      ]_vars

---------------------------------------------------------------------------
(* C9.  A cursor call on a room whose ActiveRoom is completed, or has the   *)
(* student cursors off, emits no event and changes no Member.  A cursor     *)
(* call on a room with no ActiveRoom changes nothing and relays nothing,    *)
(* and is answered with a room-not-found error to the sender alone.         *)

C9_Room == ActiveIndex(activeRooms, last'.data.roomId)

C9_GatedCursor ==
    [][ last'.op = "cursor" =>
          IF C9_Room = 0
          THEN /\ activeRooms' = activeRooms
               /\ Len(out') = 1
               /\ out'[1].ev = "error"
               /\ out'[1].to = {last'.client}
               /\ out'[1].body.message = "room not found"
          ELSE (activeRooms[C9_Room].completed \/ ~activeRooms[C9_Room].studentCursorEnabled)
                  => (out' = <<>> /\ activeRooms' = activeRooms)
      ]_vars

\* the student cursors are off in a room that is not completed, the student
\* is a Member and a connection other than the sender's is in the room; a
\* well-formed cursor call of the student emitted nothing
C9_Witness ==
    /\ last.op = "cursor" /\ last.client = "c2" /\ Len(last.data.position) = 2
    /\ out = <<>>
    /\ "c1" \in InRoom("r1")
    /\ \E i \in DOMAIN activeRooms :
          /\ activeRooms[i].id = "r1"
          /\ ~activeRooms[i].completed
          /\ ~activeRooms[i].studentCursorEnabled
          /\ \E k \in DOMAIN activeRooms[i].members :
                activeRooms[i].members[k].telegramId = "S1"

\* C9 as stated: no event at all in each of the three cases
C9_SilentInAllThreeCases ==
    [][ ( /\ last'.op = "cursor"
          /\ \/ C9_Room = 0
             \/ activeRooms[C9_Room].completed
             \/ ~activeRooms[C9_Room].studentCursorEnabled )
          => (out' = <<>> /\ activeRooms' = activeRooms)
      ]_vars

---------------------------------------------------------------------------
(* C10.  The selection-state relayed by a selection call lists exactly the  *)
(* online Members of the room whose lastSelection is non-empty, one entry   *)
(* each, and goes to every other connection of the room and not to the      *)
(* sender (stated for the relays that reach a connection).                  *)

\* the Members of a room that are online and hold a selection
C10_Selecting(members) ==
    { k \in DOMAIN members :
        /\ members[k].online
        /\ IsSome(members[k].lastSelection)
        /\ DOMAIN Get(members[k].lastSelection) # {} }

C10_SelectionStateList ==
    last.op = "selection" =>
        \A n \in DOMAIN out :
            (out[n].ev = "selection-state" /\ out[n].to # {}) =>
                LET members == activeRooms[ActiveIndex(activeRooms, last.data.roomId)].members
                    selections == out[n].body.selections
                IN  /\ Len(selections) = Cardinality(C10_Selecting(members))
                    /\ { selections[j].telegramId : j \in DOMAIN selections }
                          = { members[k].telegramId : k \in C10_Selecting(members) }
                    /\ out[n].to = InRoom(last.data.roomId) \ {last.client}

---------------------------------------------------------------------------
(* Selections: the teacher on c1 and a student on c2 join; the student      *)
(* sends a point, a point on line 0, a range, a payload with the fields of  *)
(* both, and a clear; the teacher sends a point; connections close.         *)

SelectionCalls ==
    { <<"c2", PointPayload("S1", "r1", 3, 5)>>,
      <<"c2", PointPayload("S1", "r1", 0, 5)>>,
      <<"c2", RangePayload("S1", "r1", Position(1, 1), Position(1, 4), "abc")>>,
      <<"c2", SelectionPayload("S1", "r1", Some(3), Some(5), Some(Position(1, 1)),
                               Some(Position(1, 4)), Some("abc"), None)>>,
      <<"c2", ClearPayload("S1", "r1")>>,
      <<"c1", PointPayload("T", "r1", 7, 1)>> }

NextSelect ==
    \/ \E call \in JoinCalls : JoinRoom_getRoom(call[1], call[2])
    \/ \E f \in inflight : JoinRoom_findUnique(f)
    \/ \E f \in inflight : JoinRoom_update(f)
    \/ \E f \in inflight : JoinRoom_rest(f, 0)
    \/ \E call \in SelectionCalls : handleSelection(call[1], call[2], 0)
    \/ \E client \in Clients : Disconnect(client)

SpecSelect == Init /\ [][NextSelect]_vars

---------------------------------------------------------------------------
(* C11.  In every reachable state the lastSelection of a Member is absent,  *)
(* empty, a point (line and column only) or a range (selectionStart,        *)
(* selectionEnd and selectedText only).  When an online Member has sent a   *)
(* point payload (a line other than 0, a column, no range field), the       *)
(* selection-state that reaches the other connections holds its entry with  *)
(* that line and column and no range field.                                 *)

PointFields == {"line", "column"}

RangeFields == {"selectionStart", "selectionEnd", "selectedText"}

C11_Shape(lastSelection) ==
    IsSome(lastSelection) =>
        DOMAIN Get(lastSelection) \in {{}, PointFields, RangeFields}

C11_PointSent ==
    /\ last.op = "selection"
    /\ TruthyNumber(last.data.line) /\ IsSome(last.data.column)
    /\ ~IsSome(last.data.selectionStart) /\ ~IsSome(last.data.selectionEnd)
    /\ ~IsSome(last.data.selectedText)
    /\ \E i \in DOMAIN activeRooms :
          /\ activeRooms[i].id = last.data.roomId
          /\ \E k \in DOMAIN activeRooms[i].members :
                /\ activeRooms[i].members[k].telegramId = last.data.telegramId
                /\ activeRooms[i].members[k].online

---------------------------------------------------------------------------
(* Rejoining: the teacher joins on c1, a student joins on c2 and again on   *)
(* c3; the student moves its cursor and selects from either connection,    *)
(* and connections close in any order.                                      *)

RejoinJoinCalls ==
    { <<"c1", JoinPayload("T", "r1", None)>>,
      <<"c2", JoinPayload("S1", "r1", None)>>,
      <<"c3", JoinPayload("S1", "r1", None)>> }

RejoinCursorCalls ==
    { <<client, CursorPayload("S1", "r1", <<1, 2>>)>> : client \in {"c2", "c3"} }

RejoinSelectionCalls ==
    { <<client, PointPayload("S1", "r1", 3, 5)>> : client \in {"c2", "c3"} }

InitRejoin == InitWith({"r1"}, {"c1", "c2", "c3"})

NextRejoin ==
    \/ \E call \in RejoinJoinCalls : JoinRoom_getRoom(call[1], call[2])
    \/ \E f \in inflight : JoinRoom_findUnique(f)
    \/ \E f \in inflight : JoinRoom_update(f)
    \/ \E f \in inflight : JoinRoom_rest(f, 0)
    \/ \E call \in RejoinCursorCalls : handleCursor(call[1], call[2], 0)
    \/ \E call \in RejoinSelectionCalls : handleSelection(call[1], call[2], 0)
    \/ \E client \in Clients : Disconnect(client)

SpecRejoin == InitRejoin /\ [][NextRejoin]_vars

---------------------------------------------------------------------------
(* C12.  The joined reply lists, in currentCursors and in                   *)
(* currentSelections, online Members other than the joiner only: no entry   *)
(* carries the joiner's identity and none that of an offline Member.        *)

C12_Listed(joined) ==
    { joined.body.currentCursors[j].telegramId : j \in DOMAIN joined.body.currentCursors }
        \cup
    { joined.body.currentSelections[j].telegramId : j \in DOMAIN joined.body.currentSelections }

C12_Online(roomId) ==
    LET members == activeRooms[ActiveIndex(activeRooms, roomId)].members
    IN  { members[k].telegramId : k \in { k \in DOMAIN members : members[k].online } }

C12_JoinedListsOthersOnly ==
    (last.op = "join-room" /\ last.step = "done") =>
        \A n \in DOMAIN out :
            out[n].ev = "joined" =>
                /\ last.data.telegramId \notin C12_Listed(out[n])
                /\ C12_Listed(out[n]) \subseteq C12_Online(last.data.roomId)

---------------------------------------------------------------------------
(* Authorization: next to the teacher's own edit-room and close-session,    *)
(* a student and the teacher of no room send edit-room and close-session,   *)
(* while the teacher and the student join.                                  *)

AuthEditCalls ==
    { <<"c1", EditPayload("T", "r1", Some(FALSE), None, None)>>,
      <<"c2", EditPayload("S1", "r1", Some(FALSE), None, None)>>,
      <<"c1", EditPayload("T", "r2", Some(FALSE), None, None)>> }

NextAuth ==
    \/ \E call \in JoinCalls : JoinRoom_getRoom(call[1], call[2])
    \/ \E f \in inflight : JoinRoom_findUnique(f)
    \/ \E f \in inflight : JoinRoom_update(f)
    \/ \E f \in inflight : JoinRoom_rest(f, 0)
    \/ \E call \in AuthEditCalls : EditRoom_getRoom(call[1], call[2])
    \/ \E f \in inflight : EditRoom_findUnique(f)
    \/ \E f \in inflight : EditRoom_rest(f)
    \/ \E call \in CloseCalls : CloseSession_getRoom(call[1], call[2])
    \/ \E f \in inflight : CloseSession_rest(f)

SpecAuth == Init /\ [][NextAuth]_vars

---------------------------------------------------------------------------
(* C13.  An edit-room or close-session call whose room does not exist, or   *)
(* whose caller is not the teacher of the durable room, ends with one error *)
(* to the caller alone: the durable rooms and the registry are as before,   *)
(* nothing is left suspended that could write later, and no room-edited or  *)
(* complete-session is emitted.                                             *)

C13_Refused ==
    /\ last'.op \in {"edit-room", "close-session"}
    /\ last'.step = "getRoom"
    /\ \/ ~IsSome(db[last'.data.roomId])
       \/ Get(db[last'.data.roomId]).teacher # last'.data.telegramId

C13_UnauthorizedChangesNothing ==
    [][ C13_Refused =>
          /\ db' = db
          /\ activeRooms' = activeRooms
          /\ inflight' = inflight
          /\ Len(out') = 1
          /\ out'[1].ev = "error"
          /\ out'[1].scope = "client"
          /\ out'[1].to = {last'.client}
      ]_vars

\* the student's edit-room was refused while the room is active with the
\* student cursors on and the teacher's connection in the room
C13_Witness ==
    /\ last.op = "edit-room" /\ last.client = "c2" /\ last.data.telegramId = "S1"
    /\ Len(out) = 1 /\ out[1].ev = "error" /\ out[1].to = {"c2"}
    /\ "c1" \in InRoom("r1")
    /\ Len(activeRooms) = 1
    /\ activeRooms[1].studentCursorEnabled
    /\ Get(db["r1"]).studentCursorEnabled = Some(TRUE)

---------------------------------------------------------------------------
(* Renaming: the teacher and a student join, the teacher may close the      *)
(* session; the student renames itself and tries to rename the teacher,     *)
(* the teacher renames the student and an identity that never joined.       *)

EditMemberCalls ==
    { <<"c2", EditMember("S1", "r1", "S1", Some("a"))>>,
      <<"c2", EditMember("S1", "r1", "T", Some("a"))>>,
      <<"c1", EditMember("T", "r1", "S1", Some("b"))>>,
      <<"c1", EditMember("T", "r1", "S2", Some("b"))>> }

NextMember ==
    \/ \E call \in JoinCalls : JoinRoom_getRoom(call[1], call[2])
    \/ \E f \in inflight : JoinRoom_findUnique(f)
    \/ \E f \in inflight : JoinRoom_update(f)
    \/ \E f \in inflight : JoinRoom_rest(f, 0)
    \/ \E call \in CursorCloseCalls : CloseSession_getRoom(call[1], call[2])
    \/ \E f \in inflight : CloseSession_rest(f)
    \/ \E call \in EditMemberCalls : handleEditMember(call[1], call[2])

SpecMember == Init /\ [][NextMember]_vars

---------------------------------------------------------------------------
(* C14.  An edit-member call changes a display name only when the room has  *)
(* an ActiveRoom that is not completed, the target is one of its Members    *)
(* and the caller is the target or the room's teacher: then the target's    *)
(* display name alone changes and members-updated (username-update) goes    *)
(* to the whole room.  In every other case the registry is as before and    *)
(* no members-updated is emitted: nothing at all when the ActiveRoom is     *)
(* completed, one error to the caller alone otherwise.                      *)

C14_Room == ActiveIndex(activeRooms, last'.data.roomId)

C14_Target ==
    IF C14_Room = 0 THEN 0
    ELSE MemberIndex(activeRooms[C14_Room].members, last'.data.changeTelegramId)

C14_Allowed ==
    /\ C14_Room # 0
    /\ ~activeRooms[C14_Room].completed
    /\ C14_Target # 0
    /\ \/ last'.data.telegramId = last'.data.changeTelegramId
       \/ last'.data.telegramId = activeRooms[C14_Room].teacher

C14_OnlyTheNameChanged ==
    /\ DOMAIN activeRooms' = DOMAIN activeRooms
    /\ \A i \in DOMAIN activeRooms :
          /\ DOMAIN activeRooms'[i].members = DOMAIN activeRooms[i].members
          /\ [activeRooms'[i] EXCEPT !.members = <<>>] = [activeRooms[i] EXCEPT !.members = <<>>]
          /\ \A k \in DOMAIN activeRooms[i].members :
                IF i = C14_Room /\ k = C14_Target
                THEN /\ activeRooms'[i].members[k].username = last'.data.username
                     /\ [activeRooms'[i].members[k] EXCEPT !.username = None]
                           = [activeRooms[i].members[k] EXCEPT !.username = None]
                ELSE activeRooms'[i].members[k] = activeRooms[i].members[k]

C14_RenameGuard ==
    [][ last'.op = "edit-member" =>
          IF C14_Allowed
          THEN /\ C14_OnlyTheNameChanged
               /\ Len(out') = 1
               /\ out'[1].ev = "members-updated"
               /\ out'[1].body.trigger = "username-update"
               /\ out'[1].scope = "room"
               /\ out'[1].to = InRoom(last'.data.roomId)
          ELSE /\ activeRooms' = activeRooms
               /\ IF C14_Room # 0 /\ activeRooms[C14_Room].completed
                  THEN out' = <<>>
                  ELSE /\ Len(out') = 1
                       /\ out'[1].ev = "error"
                       /\ out'[1].to = {last'.client}
      ]_vars

\* the student tried to rename the teacher and got the error; both are
\* Members of the room, which is not completed, and the student carries the
\* name the teacher gave it
C14_Witness ==
    /\ last.op = "edit-member" /\ last.client = "c2" /\ last.data.changeTelegramId = "T"
    /\ Len(out) = 1 /\ out[1].ev = "error" /\ out[1].to = {"c2"}
    /\ Len(activeRooms) = 1 /\ ~activeRooms[1].completed
    /\ \E k, j \in DOMAIN activeRooms[1].members :
          /\ activeRooms[1].members[k].telegramId = "T"
          /\ activeRooms[1].members[k].username = None
          /\ activeRooms[1].members[j].telegramId = "S1"
          /\ activeRooms[1].members[j].username = Some("b")

---------------------------------------------------------------------------
(* C15.  When an edit-room that passed its completed check resumes after a  *)
(* close-session of the same room has completed, it leaves the registry as  *)
(* it is and delivers no room-edited.                                       *)

C15_ResumedAfterClose ==
    /\ last'.op = "edit-room" /\ last'.step = "done"
    /\ Get(db[last'.data.roomId]).completed

C15_EditRevalidates ==
    [][ C15_ResumedAfterClose =>
          /\ activeRooms' = activeRooms
          /\ \A n \in DOMAIN out' : out'[n].ev = "room-edited" => out'[n].to = {}
      ]_vars

---------------------------------------------------------------------------
(* C16.  In every reachable state the student list of a durable room holds  *)
(* each identity at most once and does not hold the room's teacher.         *)

C16_StudentsOnce ==
    \A r \in RoomIds :
        IsSome(db[r]) =>
            LET students == Get(db[r]).students
            IN  /\ \A i, j \in DOMAIN students : students[i] = students[j] => i = j
                /\ \A i \in DOMAIN students : students[i] # Get(db[r]).teacher

---------------------------------------------------------------------------
(* C17.  A room has one document, which only grows: an update applied to   *)
(* it stays in it.  An update relayed as code-edit-action is in the         *)
(* document when it is relayed, and the full state sent to a joining        *)
(* connection is the document with every update applied before the join.   *)

C17_Grows ==
    \A r \in RoomIds :
        IsSome(docs[r]) => (IsSome(docs'[r]) /\ Get(docs[r]) \subseteq Get(docs'[r]))

C17_RelayedIsApplied ==
    last'.op = "code-edit" =>
        \A n \in DOMAIN out' :
            out'[n].ev = "code-edit-action" =>
                /\ IsSome(docs'[out'[n].room])
                /\ out'[n].body.update \in Get(docs'[out'[n].room])

C17_SnapshotIsDocument ==
    (last'.op = "join-room" /\ last'.step = "done") =>
        \E n \in DOMAIN out' :
            /\ out'[n].ev = "code-edit-action"
            /\ out'[n].to = {last'.client}
            /\ out'[n].body.update = Get(docs'[last'.data.roomId])
            /\ IsSome(docs[last'.data.roomId]) =>
                  Get(docs[last'.data.roomId]) \subseteq out'[n].body.update

C17_SnapshotHoldsEveryUpdate ==
    [][ C17_Grows /\ C17_RelayedIsApplied /\ C17_SnapshotIsDocument ]_vars

\* the second student joined last, after the teacher's and the first
\* student's edits were applied, and was sent both
C17_Witness ==
    /\ last.op = "join-room" /\ last.step = "done" /\ last.client = "c3"
    /\ docs["r1"] = Some({"u1", "u2"})
    /\ \E n \in DOMAIN out :
          /\ out[n].ev = "code-edit-action"
          /\ out[n].to = {"c3"}
          /\ out[n].body.update = {"u1", "u2"}

---------------------------------------------------------------------------
(* C18.  A selection payload accepted from a Member has one outcome, in     *)
(* this priority: a point {line, column} when a line is present, 0          *)
(* included, the column is a number and start, end and selected text are    *)
(* not all present; else a range when the three are present; else an empty  *)
(* selection when the clear flag is set; else the stored selection stays.   *)

C18_Room == ActiveIndex(activeRooms, last'.data.roomId)

C18_Member ==
    IF C18_Room = 0 THEN 0
    ELSE MemberIndex(activeRooms[C18_Room].members, last'.data.telegramId)

C18_Accepted ==
    /\ last'.op = "selection"
    /\ C18_Member # 0
    /\ \/ activeRooms[C18_Room].teacher = last'.data.telegramId
       \/ /\ ~activeRooms[C18_Room].completed
          /\ activeRooms[C18_Room].studentSelectionEnabled

C18_RangePresent(data) ==
    IsSome(data.selectionStart) /\ IsSome(data.selectionEnd) /\ IsSome(data.selectedText)

C18_Expected(lastSelection, data) ==
    IF IsSome(data.line) /\ IsSome(data.column) /\ ~C18_RangePresent(data)
    THEN Some([line |-> Get(data.line), column |-> Get(data.column)])
    ELSE IF C18_RangePresent(data)
    THEN Some([selectionStart |-> Get(data.selectionStart),
               selectionEnd |-> Get(data.selectionEnd),
               selectedText |-> Get(data.selectedText)])
    ELSE IF IsSome(data.clearSelection) /\ Get(data.clearSelection)
    THEN Some(<<>>)
    ELSE lastSelection

C18_OneOutcome ==
    [][ C18_Accepted =>
          activeRooms'[C18_Room].members[C18_Member].lastSelection
              = C18_Expected(activeRooms[C18_Room].members[C18_Member].lastSelection,
                             last'.data)
      ]_vars

---------------------------------------------------------------------------
(* C19.  Whenever no handler is in flight, every Member flagged online is   *)
(* bound to a connection that is still connected, and every room of the     *)
(* registry has a Member whose connection is still connected.               *)

C19_OnlineMeansConnected ==
    inflight = {} =>
        \A i \in DOMAIN activeRooms :
            /\ \A k \in DOMAIN activeRooms[i].members :
                  activeRooms[i].members[k].online =>
                      activeRooms[i].members[k].clientId \in conn
            /\ \E k \in DOMAIN activeRooms[i].members :
                  activeRooms[i].members[k].clientId \in conn

---------------------------------------------------------------------------
(* C20.  When a connection closes, every online Member bound to another     *)
(* connection stays as it is, its selection included, in a room that stays  *)
(* in the registry.  In particular, when the Member of an identity has been *)
(* rebound by a rejoin and the old connection, bound to no Member any more, *)
(* closes: the registry is as before and no member-left is emitted.         *)

C20_Bound(client) ==
    \E i \in DOMAIN activeRooms : \E k \in DOMAIN activeRooms[i].members :
        activeRooms[i].members[k].clientId = client

C20_OldConnectionCloses ==
    [][ last'.op = "disconnect" =>
          /\ \A i \in DOMAIN activeRooms : \A k \in DOMAIN activeRooms[i].members :
                ( /\ activeRooms[i].members[k].online
                  /\ activeRooms[i].members[k].clientId # last'.client )
                    => \E n \in DOMAIN activeRooms' :
                          /\ activeRooms'[n].id = activeRooms[i].id
                          /\ k \in DOMAIN activeRooms'[n].members
                          /\ activeRooms'[n].members[k] = activeRooms[i].members[k]
          /\ ~C20_Bound(last'.client) =>
                /\ activeRooms' = activeRooms
                /\ \A n \in DOMAIN out' : out'[n].ev # "member-left"
      ]_vars

\* the student was enrolled by two joins, from c2 and from c3, both run to
\* their end; its Member is bound to c3 and holds a selection; c2 closed and
\* nothing was emitted
C20_Witness ==
    /\ last.op = "disconnect" /\ last.client = "c2"
    /\ inflight = {}
    /\ Get(db["r1"]).students = <<"S1", "S1">>
    /\ out = <<>>
    /\ "c3" \in conn
    /\ Len(activeRooms) = 1
    /\ \E k \in DOMAIN activeRooms[1].members :
          /\ activeRooms[1].members[k].telegramId = "S1"
          /\ activeRooms[1].members[k].clientId = "c3"
          /\ activeRooms[1].members[k].online
          /\ IsSome(activeRooms[1].members[k].lastSelection)

---------------------------------------------------------------------------
(* C21.  Whenever no handler is in flight, the three toggles of every room  *)
(* of the registry equal the three toggles of its durable room.             *)

C21_SnapshotEqualsDurable ==
    inflight = {} =>
        \A i \in DOMAIN activeRooms :
            LET room == getRoom(activeRooms[i].id)
            IN  IsSome(room) =>
                    \A toggle \in ToggleNames :
                        Some(activeRooms[i][toggle]) = Get(room)[toggle]

====
